---- MODULE Spec2Model ----
(***************************************************************************)
(* The multi-key request dispatcher of baby-bot (src/app.py): the pool of  *)
(* Gemini API keys, the per-key and global cooldowns, the throttle gate    *)
(* and the rotation loop of _call_gemini_with_rotation, run by concurrent  *)
(* request threads against a shared wall clock; and the analysis step of   *)
(* _process_image_async, which calls that dispatcher first and falls back  *)
(* to the OpenRouter models of _call_openrouter_fallback.                  *)
(*                                                                         *)
(* Key indices are Python's (0-based); the pool GEMINI_API_KEYS is a       *)
(* sequence, so key index k is element k + 1.                              *)
(*                                                                         *)
(* Time is in whole seconds and is kept relative to the present: the code  *)
(* only ever compares a stored timestamp with time.time(), so a variable   *)
(* that holds the timestamp T in the code holds T - time.time() + Now      *)
(* here, Now being the fixed value time.time() has in the model.  When     *)
(* time passes (Tick) every stored timestamp moves back by the seconds     *)
(* that passed; a deadline already reached stays at Now, and a last-call   *)
(* time at least MIN_REQUEST_INTERVAL old stays that old, since the code   *)
(* cannot tell such values apart.                                          *)
(***************************************************************************)
EXTENDS Integers, Sequences, FiniteSets, TLC

\* ---------------------------------------------------------------- policy
PER_KEY_COOLDOWN == 60
GLOBAL_COOLDOWN == 120
MIN_REQUEST_INTERVAL == 2
\* the default of the max_rounds parameter, which the only caller uses
max_rounds == 3
\* the two literals of the backoff expression min(15 * 2 ** (r - 1), 60)
BackoffBase == 15
BackoffCap == 60
\* the status code _call_openrouter_fallback takes for success
HTTP_OK == 200
\* OPENROUTER_FREE_MODELS, in the order of the list
OPENROUTER_FREE_MODELS ==
    <<"qwen/qwen2.5-vl-32b-instruct:free",
      "meta-llama/llama-3.2-11b-vision-instruct:free",
      "google/gemma-3-4b-it:free">>

\* ---------------------------------------------------------------- bounds
\* largest pool, concurrent specification
MaxKeys == 2
\* largest pool, single-caller specification
MaxKeysSingle == 3
\* request threads of the concurrent specification
NumCallers == 2
\* requests served in one run, concurrent specification
MaxCalls == 3
\* requests served in one run, single-caller specification
MaxCallsSingle == 5
\* requests served in one run, fair specification
MaxCallsFair == 2
\* largest pool, analysis-step specification
MaxKeysAnalysis == 2
\* requests served in one run, analysis-step specification
MaxCallsAnalysis == 3
\* the value of time.time(), the origin against which timestamps are kept
Now == 0
\* how long a provider call takes: a quick answer, or one that outlasts a
\* per-key cooldown
FastCall == 1
SlowCall == 61

VARIABLES
    GEMINI_API_KEYS,         \* the pool, loaded once at start
    _current_key_index,      \* rotation cursor
    _key_cooldown,           \* dict key_index -> cooldown-until timestamp
    _global_cooldown_until,
    _last_request_time,
    _rate_lock,              \* 0 when free, else the thread holding it
    callers,                 \* the request threads of this run
    requests,                \* the requests still to arrive in this run
    pc,                      \* each thread's position in the code
    round_num, attempt, keys_tried, keys_in_cooldown, key_index,
    wake,                    \* the earliest clock at which a sleeping thread resumes
    response,                \* what the call returned: the key that answered, 0 for none
    outcome,                 \* how the thread's dispatch call ended
    hist,                    \* per call: what the call has done so far (observation only)
    OPENROUTER_API_KEY,      \* the fallback credential, "" when not configured
    step,                    \* each thread's position in the analysis step
    model,                   \* index of the fallback model in turn (1-based)
    resp,                    \* the answer to the last requests.post
    response_text,           \* << >> for None, else the text
    result,                  \* how the analysis step ended
    posts                    \* per request: the models posted to so far (observation only)

shared == <<_current_key_index, _key_cooldown, _global_cooldown_until,
            _last_request_time, _rate_lock>>
locals == <<round_num, attempt, keys_tried, keys_in_cooldown, key_index, wake,
            response>>
\* the state of the analysis step
coordinator == <<step, model, resp, response_text, result, posts>>
config == <<GEMINI_API_KEYS, callers, OPENROUTER_API_KEY>>
env == <<GEMINI_API_KEYS, callers, requests, OPENROUTER_API_KEY, coordinator>>
vars == <<GEMINI_API_KEYS, _current_key_index, _key_cooldown, _global_cooldown_until,
          _last_request_time, _rate_lock, callers, requests, pc,
          round_num, attempt, keys_tried, keys_in_cooldown, key_index, wake,
          response, outcome, hist, OPENROUTER_API_KEY, step, model, resp,
          response_text, result, posts>>

\* ---------------------------------------------------------------- helpers
Min(a, b) == IF a < b THEN a ELSE b

RECURSIVE Pow2(_)
Pow2(n) == IF n = 0 THEN 1 ELSE 2 * Pow2(n - 1)

\* len(GEMINI_API_KEYS)
NKeys == Len(GEMINI_API_KEYS)

Max(a, b) == IF a > b THEN a ELSE b

\* the initial timestamp 0 (the epoch), as a deadline: reached long ago
Expired == Now

\* the initial timestamp 0 (the epoch), as a last-call time: long ago
LongAgo == Now - MIN_REQUEST_INTERVAL

\* _key_cooldown.get(k, 0)
CooldownGet(k) == IF k \in DOMAIN _key_cooldown THEN _key_cooldown[k] ELSE Expired

\* _key_cooldown.pop(k, None)
CooldownPop(k) == [j \in (DOMAIN _key_cooldown) \ {k} |-> _key_cooldown[j]]

\* _key_cooldown[k] = v
CooldownSet(k, v) == [j \in (DOMAIN _key_cooldown) \cup {k} |->
                        IF j = k THEN v ELSE _key_cooldown[j]]

\* a variant that compares the wrong way round
IsInGlobalCooldown_reversed(now) == now > _global_cooldown_until

\* _is_in_global_cooldown(): now < _global_cooldown_until
IsInGlobalCooldown(now) == now < _global_cooldown_until

\* a variant that never finds a key in cooldown
KeyInCooldown_never(k, now) == FALSE

\* now < cooldown_until, on the entry of key k
KeyInCooldown(k, now) == now < CooldownGet(k)

\* a variant that uses the per-key duration for the global cooldown
GlobalCooldownDeadline_perkey(now) == now + PER_KEY_COOLDOWN

\* _global_cooldown_until = time.time() + GLOBAL_COOLDOWN
GlobalCooldownDeadline(now) == now + GLOBAL_COOLDOWN

\* a variant that uses the backoff base as the per-key cooldown
KeyCooldownDeadline_short(now) == now + BackoffBase

\* a variant whose per-key cooldown lasts only the throttle interval
KeyCooldownDeadline_brief(now) == now + MIN_REQUEST_INTERVAL

\* _key_cooldown[key_index] = time.time() + PER_KEY_COOLDOWN
KeyCooldownDeadline(now) == now + PER_KEY_COOLDOWN

\* a variant whose exponent is one too large
BackoffSeconds_early(r) == Min(BackoffBase * Pow2(r), BackoffCap)

\* wait_seconds = min(15 * (2 ** (round_num - 1)), 60)
BackoffSeconds(r) == Min(BackoffBase * Pow2(r - 1), BackoffCap)

\* a variant that forgets the modulus
KeyIndexAt_nowrap(a) == _current_key_index + a

\* key_index = (_current_key_index + attempt) % len(GEMINI_API_KEYS)
KeyIndexAt(a) == (_current_key_index + a) % NKeys

\* a variant that forgets to wrap around
NextCursor_nowrap(k) == k + 1

\* _current_key_index = (key_index + 1) % len(GEMINI_API_KEYS)
NextCursor(k) == (k + 1) % NKeys

\* a variant that enters without the lock
LockFree_unlocked == TRUE

\* `with _rate_lock:` can be entered
LockFree == _rate_lock = 0

\* elapsed = now - _last_request_time
Elapsed(now) == now - _last_request_time

\* wait = MIN_REQUEST_INTERVAL - elapsed
ThrottleWait(now) == MIN_REQUEST_INTERVAL - Elapsed(now)

\* What the provider's exceptions say, as words: a message contains a text
\* when one of its words is that text.
ErrorMessages ==
    {<<"429", "Too", "Many", "Requests">>, <<"ResourceExhausted">>,
     <<"Quota", "exceeded">>, <<"500", "Internal">>}

Contains(msg, w) == \E i \in 1..Len(msg) : msg[i] = w

\* str.lower(), on the words above
LowerWord(w) ==
    CASE w = "Quota" -> "quota"
      [] w = "Too" -> "too"
      [] w = "Many" -> "many"
      [] w = "Requests" -> "requests"
      [] w = "ResourceExhausted" -> "resourceexhausted"
      [] w = "Internal" -> "internal"
      [] OTHER -> w

Lower(msg) == [i \in 1..Len(msg) |-> LowerWord(msg[i])]

\* '429' in error_str or 'ResourceExhausted' in error_str or 'quota' in error_str.lower()
IsRateLimit(msg) ==
    \/ Contains(msg, "429")
    \/ Contains(msg, "ResourceExhausted")
    \/ Contains(Lower(msg), "quota")

\* the observation record of a call that has done nothing yet
\*   begun, limited   provider attempts begun / answered by a rate-limit error
\*   throttled        passes through the throttle gate
\*   slept            the last pass through the gate had to sleep
\*   visited, tried   key indices considered / attempted in the current round
\*   rl_at            when each key was rate-limited in this call
\*   since            when the call began
\*   avail0           the keys with no active cooldown when the call began
\*   gated            the call got past the entry checks
\*   had_entry        the key that answered had a cooldown entry
\*   hot, blocked     the last attempt was begun on a key in cooldown / under
\*                    an active global cooldown
NoHist == [begun |-> 0, limited |-> 0, throttled |-> 0, slept |-> FALSE,
           visited |-> << >>, tried |-> << >>, rl_at |-> << >>, avail0 |-> {},
           gated |-> FALSE, had_entry |-> FALSE, hot |-> FALSE, blocked |-> FALSE,
           since |-> Now]

Note(t, field, v) == [hist EXCEPT ![t][field] = v]

\* response_text = None
None == << >>

\* What requests.post can come back with: it raises (timeout, connection
\* error), or it returns a status code and a body in which
\* data['choices'][0]['message']['content'] is a text, is null, or is not
\* there (resp.json() or the subscripts raise).
PostAnswers ==
    {[raised |-> TRUE, status_code |-> 0, content |-> "missing"]}
        \cup {[raised |-> FALSE, status_code |-> s, content |-> c] :
                    s \in {HTTP_OK, 429}, c \in {"text", "null", "missing"}}

\* no requests.post made yet
NoResp == [raised |-> FALSE, status_code |-> 0, content |-> "missing"]

\* ---------------------------------------------------------------- initial state
InitWith(cs, maxKeys, maxCalls) ==
    /\ GEMINI_API_KEYS \in {[i \in 1..n |-> i] : n \in 0..maxKeys}
    /\ _current_key_index = 0
    /\ _key_cooldown = << >>
    /\ _global_cooldown_until = Expired
    /\ _last_request_time = LongAgo
    /\ _rate_lock = 0
    /\ callers = cs
    /\ requests = maxCalls
    /\ pc = [t \in cs |-> "idle"]
    /\ round_num = [t \in cs |-> 0]
    /\ attempt = [t \in cs |-> 0]
    /\ keys_tried = [t \in cs |-> 0]
    /\ keys_in_cooldown = [t \in cs |-> 0]
    /\ key_index = [t \in cs |-> 0]
    /\ wake = [t \in cs |-> Now]
    /\ response = [t \in cs |-> 0]
    /\ outcome = [t \in cs |-> "none"]
    /\ hist = [t \in cs |-> NoHist]

\* the analysis step's variables, each thread at position s0
InitCoordinator(cs, s0) ==
    /\ step = [t \in cs |-> s0]
    /\ model = [t \in cs |-> 1]
    /\ resp = [t \in cs |-> NoResp]
    /\ response_text = [t \in cs |-> None]
    /\ result = [t \in cs |-> "none"]
    /\ posts = [t \in cs |-> << >>]

\* request threads that call the dispatcher directly
Init ==
    /\ InitWith(1..NumCallers, MaxKeys, MaxCalls)
    /\ OPENROUTER_API_KEY = ""
    /\ InitCoordinator(1..NumCallers, "direct")

InitSingle ==
    /\ InitWith({1}, MaxKeysSingle, MaxCallsSingle)
    /\ OPENROUTER_API_KEY = ""
    /\ InitCoordinator({1}, "direct")

\* one request thread that runs the analysis step of _process_image_async
InitAnalysis ==
    /\ InitWith({1}, MaxKeysAnalysis, MaxCallsAnalysis)
    /\ OPENROUTER_API_KEY \in {"", "sk-or-v1"}
    /\ InitCoordinator({1}, "wait")

\* ---------------------------------------------------------------- the clock
\* Ordinary code takes no time at the model's resolution of one second: time
\* passes only while every thread is asleep, waiting for the lock, waiting for
\* the provider or waiting for a request.  It then moves to the next instant
\* at which something can change: a sleep or a provider call ends, a cooldown
\* runs out, the throttle interval is over.
Busy(t) ==
    \/ pc[t] \in {"round", "key", "attempt", "exhausted", "done"}
    \/ pc[t] = "throttle" /\ _rate_lock = 0
    \/ pc[t] \in {"backoff", "throttle_sleep", "calling"} /\ Now >= wake[t]

Instants ==
    {wake[t] : t \in callers}
        \cup {_key_cooldown[k] : k \in DOMAIN _key_cooldown}
        \cup {_global_cooldown_until, _last_request_time + MIN_REQUEST_INTERVAL}

\* a deadline, d seconds later
Later(T, d) == Max(T - d, Expired)

\* a last-call time, d seconds later
LaterLast(T, d) == Max(T - d, LongAgo)

\* the time of a rate-limit answer, d seconds later
LaterSince(T, d) == Max(T - d, Now - PER_KEY_COOLDOWN)

Tick ==
    /\ \A t \in callers : ~Busy(t)
    /\ \E T \in Instants :
        /\ T > Now
        /\ \A U \in Instants : U > Now => T <= U
        /\ _key_cooldown' = [k \in DOMAIN _key_cooldown |-> Later(_key_cooldown[k], T - Now)]
        /\ _global_cooldown_until' = Later(_global_cooldown_until, T - Now)
        /\ _last_request_time' = LaterLast(_last_request_time, T - Now)
        /\ wake' = [t \in callers |-> Later(wake[t], T - Now)]
        /\ hist' = [t \in callers |-> [hist[t] EXCEPT
                        !.rl_at = [k \in DOMAIN @ |-> LaterSince(@[k], T - Now)],
                        !.since = IF pc[t] = "idle" THEN @ ELSE LaterSince(@, T - Now)]]
    /\ UNCHANGED <<_current_key_index, _rate_lock, env, pc, round_num, attempt,
                   keys_tried, keys_in_cooldown, key_index, response, outcome>>

\* ---------------------------------------------------------------- _call_gemini_with_rotation
\* a variant without the empty-pool check
Enter_unchecked(t) ==
    /\ pc[t] = "idle"
    /\ requests > 0
    /\ requests' = requests - 1
    /\ UNCHANGED <<shared, config, attempt, keys_tried, keys_in_cooldown,
                   key_index, wake, response>>
    /\ \/ /\ IsInGlobalCooldown(Now)
          /\ pc' = [pc EXCEPT ![t] = "done"]
          /\ outcome' = [outcome EXCEPT ![t] = "QuotaExhaustedError"]
          /\ hist' = [hist EXCEPT ![t] = NoHist]
          /\ UNCHANGED round_num
       \/ /\ ~IsInGlobalCooldown(Now)
          /\ pc' = [pc EXCEPT ![t] = "round"]
          /\ outcome' = [outcome EXCEPT ![t] = "none"]
          /\ round_num' = [round_num EXCEPT ![t] = 0]
          /\ hist' = [hist EXCEPT ![t] = [NoHist EXCEPT !.gated = TRUE,
                                            !.avail0 = {k \in 0..(NKeys - 1) : Now >= CooldownGet(k)}]]

\* entry: the empty-pool check and the global cooldown check
Enter(t) ==
    /\ pc[t] = "idle"
    /\ requests > 0
    /\ requests' = requests - 1
    /\ UNCHANGED <<shared, config, attempt, keys_tried, keys_in_cooldown,
                   key_index, wake, response>>
    /\ \/ /\ NKeys = 0
          /\ pc' = [pc EXCEPT ![t] = "done"]
          /\ outcome' = [outcome EXCEPT ![t] = "ValueError"]
          /\ hist' = [hist EXCEPT ![t] = NoHist]
          /\ UNCHANGED round_num
       \/ /\ NKeys > 0
          /\ IsInGlobalCooldown(Now)
          /\ pc' = [pc EXCEPT ![t] = "done"]
          /\ outcome' = [outcome EXCEPT ![t] = "QuotaExhaustedError"]
          /\ hist' = [hist EXCEPT ![t] = NoHist]
          /\ UNCHANGED round_num
       \/ /\ NKeys > 0
          /\ ~IsInGlobalCooldown(Now)
          /\ pc' = [pc EXCEPT ![t] = "round"]
          /\ outcome' = [outcome EXCEPT ![t] = "none"]
          /\ round_num' = [round_num EXCEPT ![t] = 0]
          /\ hist' = [hist EXCEPT ![t] = [NoHist EXCEPT !.gated = TRUE,
                                            !.avail0 = {k \in 0..(NKeys - 1) : Now >= CooldownGet(k)}]]

\* the head of `for round_num in range(max_rounds)`
RoundStart(t) ==
    /\ pc[t] = "round"
    /\ UNCHANGED <<shared, env, round_num, key_index, response, outcome>>
    /\ \/ /\ round_num[t] >= max_rounds
          /\ pc' = [pc EXCEPT ![t] = "exhausted"]
          /\ UNCHANGED <<attempt, keys_tried, keys_in_cooldown, wake, hist>>
       \/ /\ round_num[t] < max_rounds
          /\ round_num[t] > 0
          /\ pc' = [pc EXCEPT ![t] = "backoff"]
          /\ wake' = [wake EXCEPT ![t] = Now + BackoffSeconds(round_num[t])]
          /\ UNCHANGED <<attempt, keys_tried, keys_in_cooldown, hist>>
       \/ /\ round_num[t] = 0
          /\ round_num[t] < max_rounds
          /\ pc' = [pc EXCEPT ![t] = "key"]
          /\ attempt' = [attempt EXCEPT ![t] = 0]
          /\ keys_tried' = [keys_tried EXCEPT ![t] = 0]
          /\ keys_in_cooldown' = [keys_in_cooldown EXCEPT ![t] = 0]
          /\ hist' = [hist EXCEPT ![t].visited = << >>, ![t].tried = << >>]
          /\ UNCHANGED wake

\* time.sleep(wait_seconds) returns
BackoffWake(t) ==
    /\ pc[t] = "backoff"
    /\ Now >= wake[t]
    /\ pc' = [pc EXCEPT ![t] = "key"]
    /\ attempt' = [attempt EXCEPT ![t] = 0]
    /\ keys_tried' = [keys_tried EXCEPT ![t] = 0]
    /\ keys_in_cooldown' = [keys_in_cooldown EXCEPT ![t] = 0]
    /\ hist' = [hist EXCEPT ![t].visited = << >>, ![t].tried = << >>]
    /\ UNCHANGED <<shared, env, round_num, key_index, wake, response,
                   outcome>>

\* a variant without the early stop after a round of skips only
NextKey_nobreak(t) ==
    /\ pc[t] = "key"
    /\ UNCHANGED <<shared, env, wake, response, outcome>>
    /\ \/ /\ attempt[t] >= NKeys
          /\ pc' = [pc EXCEPT ![t] = "round"]
          /\ round_num' = [round_num EXCEPT ![t] = @ + 1]
          /\ UNCHANGED <<attempt, keys_tried, keys_in_cooldown, key_index, hist>>
       \/ /\ attempt[t] < NKeys
          /\ KeyInCooldown(KeyIndexAt(attempt[t]), Now)
          /\ key_index' = [key_index EXCEPT ![t] = KeyIndexAt(attempt[t])]
          /\ keys_in_cooldown' = [keys_in_cooldown EXCEPT ![t] = @ + 1]
          /\ attempt' = [attempt EXCEPT ![t] = @ + 1]
          /\ hist' = [hist EXCEPT ![t].visited = Append(@, KeyIndexAt(attempt[t]))]
          /\ UNCHANGED <<pc, round_num, keys_tried>>
       \/ /\ attempt[t] < NKeys
          /\ ~KeyInCooldown(KeyIndexAt(attempt[t]), Now)
          /\ key_index' = [key_index EXCEPT ![t] = KeyIndexAt(attempt[t])]
          /\ keys_tried' = [keys_tried EXCEPT ![t] = @ + 1]
          /\ pc' = [pc EXCEPT ![t] = "throttle"]
          /\ hist' = [hist EXCEPT ![t].visited = Append(@, KeyIndexAt(attempt[t]))]
          /\ UNCHANGED <<round_num, attempt, keys_in_cooldown>>

\* one iteration head of `for attempt in range(len(GEMINI_API_KEYS))`, and the
\* `if keys_tried == 0: break` that follows the loop
NextKey(t) ==
    /\ pc[t] = "key"
    /\ UNCHANGED <<shared, env, wake, response, outcome>>
    /\ \/ /\ attempt[t] >= NKeys
          /\ keys_tried[t] = 0
          /\ pc' = [pc EXCEPT ![t] = "exhausted"]
          /\ UNCHANGED <<round_num, attempt, keys_tried, keys_in_cooldown, key_index, hist>>
       \/ /\ attempt[t] >= NKeys
          /\ keys_tried[t] > 0
          /\ pc' = [pc EXCEPT ![t] = "round"]
          /\ round_num' = [round_num EXCEPT ![t] = @ + 1]
          /\ UNCHANGED <<attempt, keys_tried, keys_in_cooldown, key_index, hist>>
       \/ /\ attempt[t] < NKeys
          /\ KeyInCooldown(KeyIndexAt(attempt[t]), Now)
          /\ key_index' = [key_index EXCEPT ![t] = KeyIndexAt(attempt[t])]
          /\ keys_in_cooldown' = [keys_in_cooldown EXCEPT ![t] = @ + 1]
          /\ attempt' = [attempt EXCEPT ![t] = @ + 1]
          /\ hist' = [hist EXCEPT ![t].visited = Append(@, KeyIndexAt(attempt[t]))]
          /\ UNCHANGED <<pc, round_num, keys_tried>>
       \/ /\ attempt[t] < NKeys
          /\ ~KeyInCooldown(KeyIndexAt(attempt[t]), Now)
          /\ key_index' = [key_index EXCEPT ![t] = KeyIndexAt(attempt[t])]
          /\ keys_tried' = [keys_tried EXCEPT ![t] = @ + 1]
          /\ pc' = [pc EXCEPT ![t] = "throttle"]
          /\ hist' = [hist EXCEPT ![t].visited = Append(@, KeyIndexAt(attempt[t]))]
          /\ UNCHANGED <<round_num, attempt, keys_in_cooldown>>

\* ---------------------------------------------------------------- _throttle_request
\* `with _rate_lock:` is entered; the wait is computed; either the thread
\* sleeps holding the lock or it records the call time and leaves
ThrottleEnter(t) ==
    /\ pc[t] = "throttle"
    /\ LockFree
    /\ UNCHANGED <<_current_key_index, _key_cooldown, _global_cooldown_until, env,
                   round_num, attempt, keys_tried, keys_in_cooldown, key_index,
                   response, outcome>>
    /\ \/ /\ Elapsed(Now) < MIN_REQUEST_INTERVAL
          /\ _rate_lock' = t
          /\ wake' = [wake EXCEPT ![t] = Now + ThrottleWait(Now)]
          /\ pc' = [pc EXCEPT ![t] = "throttle_sleep"]
          /\ UNCHANGED <<_last_request_time, hist>>
       \/ /\ Elapsed(Now) >= MIN_REQUEST_INTERVAL
          /\ _last_request_time' = Now
          /\ _rate_lock' = 0
          /\ pc' = [pc EXCEPT ![t] = "attempt"]
          /\ hist' = [hist EXCEPT ![t].throttled = @ + 1, ![t].slept = FALSE]
          /\ UNCHANGED wake

\* a variant that leaves the gate without releasing the lock
ThrottleWake_keeps(t) ==
    /\ pc[t] = "throttle_sleep"
    /\ Now >= wake[t]
    /\ _last_request_time' = Now
    /\ pc' = [pc EXCEPT ![t] = "attempt"]
    /\ hist' = [hist EXCEPT ![t].throttled = @ + 1, ![t].slept = TRUE]
    /\ UNCHANGED <<_current_key_index, _key_cooldown, _global_cooldown_until, env,
                   locals, outcome, _rate_lock>>

\* time.sleep(wait) returns; the call time is recorded and the lock released
ThrottleWake(t) ==
    /\ pc[t] = "throttle_sleep"
    /\ Now >= wake[t]
    /\ _last_request_time' = Now
    /\ _rate_lock' = 0
    /\ pc' = [pc EXCEPT ![t] = "attempt"]
    /\ hist' = [hist EXCEPT ![t].throttled = @ + 1, ![t].slept = TRUE]
    /\ UNCHANGED <<_current_key_index, _key_cooldown, _global_cooldown_until, env,
                   locals, outcome>>

\* ---------------------------------------------------------------- the provider attempt
\* genai.configure(api_key=...) ... generate_content(...) is started
AttemptBegin(t) ==
    /\ pc[t] = "attempt"
    /\ pc' = [pc EXCEPT ![t] = "calling"]
    /\ \E d \in {FastCall, SlowCall} : wake' = [wake EXCEPT ![t] = Now + d]
    /\ hist' = [hist EXCEPT ![t].begun = @ + 1,
                            ![t].tried = Append(@, key_index[t]),
                            ![t].hot = Now < CooldownGet(key_index[t]),
                            ![t].blocked = Now < _global_cooldown_until]
    /\ UNCHANGED <<shared, env, round_num, attempt, keys_tried,
                   keys_in_cooldown, key_index, response, outcome>>

\* the provider answered: cursor to the next key, this key's entry cleared, return
AttemptSuccess(t) ==
    /\ pc[t] = "calling"
    /\ Now >= wake[t]
    /\ _current_key_index' = NextCursor(key_index[t])
    /\ _key_cooldown' = CooldownPop(key_index[t])
    /\ pc' = [pc EXCEPT ![t] = "done"]
    /\ outcome' = [outcome EXCEPT ![t] = "ok"]
    /\ response' = [response EXCEPT ![t] = GEMINI_API_KEYS[key_index[t] + 1]]
    /\ hist' = Note(t, "had_entry", key_index[t] \in DOMAIN _key_cooldown)
    /\ UNCHANGED <<_global_cooldown_until, _last_request_time, _rate_lock, env,
                   round_num, attempt, keys_tried, keys_in_cooldown, key_index, wake>>

\* the provider raised an error that reads as a rate limit: the key cools
\* down and the loop goes on with the next key
AttemptRateLimited(t) ==
    /\ pc[t] = "calling"
    /\ Now >= wake[t]
    /\ \E e \in ErrorMessages : IsRateLimit(e)
    /\ _key_cooldown' = CooldownSet(key_index[t], KeyCooldownDeadline(Now))
    /\ attempt' = [attempt EXCEPT ![t] = @ + 1]
    /\ pc' = [pc EXCEPT ![t] = "key"]
    /\ hist' = [hist EXCEPT ![t].limited = @ + 1,
                            ![t].rl_at = [j \in (DOMAIN @) \cup {key_index[t]} |->
                                            IF j = key_index[t] THEN Now ELSE @[j]]]
    /\ UNCHANGED <<_current_key_index, _global_cooldown_until, _last_request_time,
                   _rate_lock, env, round_num, keys_tried, keys_in_cooldown,
                   key_index, wake, response, outcome>>

\* a variant that cools the key down on any error before re-raising
AttemptOtherError_marks(t) ==
    /\ pc[t] = "calling"
    /\ Now >= wake[t]
    /\ pc' = [pc EXCEPT ![t] = "done"]
    /\ \E e \in ErrorMessages : ~IsRateLimit(e)
    /\ outcome' = [outcome EXCEPT ![t] = "ProviderError"]
    /\ _key_cooldown' = CooldownSet(key_index[t], KeyCooldownDeadline(Now))
    /\ UNCHANGED hist
    /\ UNCHANGED <<_current_key_index, _global_cooldown_until, _last_request_time,
                   _rate_lock, env, round_num, attempt, keys_tried, keys_in_cooldown,
                   key_index, wake, response>>

\* the provider raised any other error: re-raised
AttemptOtherError(t) ==
    /\ pc[t] = "calling"
    /\ Now >= wake[t]
    /\ pc' = [pc EXCEPT ![t] = "done"]
    /\ \E e \in ErrorMessages : ~IsRateLimit(e)
    /\ outcome' = [outcome EXCEPT ![t] = "ProviderError"]
    /\ UNCHANGED hist
    /\ UNCHANGED <<shared, env, round_num, attempt, keys_tried, keys_in_cooldown,
                   key_index, wake, response>>

\* a variant that sets the global cooldown only after a call that made attempts
ActivateGlobalCooldown_tried(t) ==
    /\ pc[t] = "exhausted"
    /\ _global_cooldown_until' =
            IF hist[t].begun > 0 THEN GlobalCooldownDeadline(Now) ELSE _global_cooldown_until
    /\ pc' = [pc EXCEPT ![t] = "done"]
    /\ outcome' = [outcome EXCEPT ![t] = "QuotaExhaustedError"]
    /\ UNCHANGED hist
    /\ UNCHANGED <<_current_key_index, _key_cooldown, _last_request_time, _rate_lock,
                   env, locals>>

\* after the loops: the global cooldown is set and QuotaExhaustedError raised
ActivateGlobalCooldown(t) ==
    /\ pc[t] = "exhausted"
    /\ _global_cooldown_until' = GlobalCooldownDeadline(Now)
    /\ pc' = [pc EXCEPT ![t] = "done"]
    /\ outcome' = [outcome EXCEPT ![t] = "QuotaExhaustedError"]
    /\ UNCHANGED hist
    /\ UNCHANGED <<_current_key_index, _key_cooldown, _last_request_time, _rate_lock,
                   env, locals>>

\* the call is over; the thread is free to serve its next request
Return(t) ==
    /\ pc[t] = "done"
    /\ pc' = [pc EXCEPT ![t] = "idle"]
    /\ round_num' = [round_num EXCEPT ![t] = 0]
    /\ attempt' = [attempt EXCEPT ![t] = 0]
    /\ keys_tried' = [keys_tried EXCEPT ![t] = 0]
    /\ keys_in_cooldown' = [keys_in_cooldown EXCEPT ![t] = 0]
    /\ key_index' = [key_index EXCEPT ![t] = 0]
    /\ wake' = [wake EXCEPT ![t] = Now]
    /\ response' = [response EXCEPT ![t] = 0]
    /\ outcome' = [outcome EXCEPT ![t] = "none"]
    /\ hist' = [hist EXCEPT ![t] = NoHist]
    /\ UNCHANGED <<shared, env>>

\* ---------------------------------------------------------------- _process_image_async, analysis step
\* a variant that calls the dispatcher whatever the pool
AnalyzeStart_calls(t) ==
    /\ step[t] = "wait"
    /\ response_text' = [response_text EXCEPT ![t] = None]
    /\ posts' = [posts EXCEPT ![t] = << >>]
    /\ UNCHANGED <<model, resp, result>>
    /\ Enter(t)
    /\ step' = [step EXCEPT ![t] = "primary"]

\* response_text = None; if GEMINI_API_KEYS: _call_gemini_with_rotation(...) is called
AnalyzeStart(t) ==
    /\ step[t] = "wait"
    /\ response_text' = [response_text EXCEPT ![t] = None]
    /\ posts' = [posts EXCEPT ![t] = << >>]
    /\ UNCHANGED <<model, resp, result>>
    /\ \/ /\ NKeys > 0
          /\ Enter(t)
          /\ step' = [step EXCEPT ![t] = "primary"]
       \/ /\ NKeys = 0
          /\ requests > 0
          /\ requests' = requests - 1
          /\ step' = [step EXCEPT ![t] = "fallback"]
          /\ UNCHANGED <<shared, config, pc, locals, outcome, hist>>

\* a variant that lets the dispatcher's exception through
PrimaryEnds_escapes(t) ==
    /\ step[t] = "primary"
    /\ pc[t] = "done"
    /\ pc' = [pc EXCEPT ![t] = "idle"]
    /\ response_text' = [response_text EXCEPT ![t] =
                            IF outcome[t] = "ok" THEN <<"Gemini", response[t]>> ELSE @]
    /\ step' = [step EXCEPT ![t] = IF outcome[t] = "ok" THEN "fallback" ELSE "over"]
    /\ result' = [result EXCEPT ![t] = IF outcome[t] = "ok" THEN @ ELSE outcome[t]]
    /\ UNCHANGED <<shared, config, requests, locals, outcome, hist, model, resp, posts>>

\* the dispatcher returned or raised: response_text = response.text.strip(),
\* or the exception is caught and logged
PrimaryEnds(t) ==
    /\ step[t] = "primary"
    /\ pc[t] = "done"
    /\ pc' = [pc EXCEPT ![t] = "idle"]
    /\ response_text' = [response_text EXCEPT ![t] =
                            IF outcome[t] = "ok" THEN <<"Gemini", response[t]>> ELSE @]
    /\ step' = [step EXCEPT ![t] = "fallback"]
    /\ UNCHANGED <<shared, config, requests, locals, outcome, hist, model, resp,
                   result, posts>>

\* a variant that falls back whenever the credential is configured
FallbackCheck_always(t) ==
    /\ step[t] = "fallback"
    /\ \/ /\ OPENROUTER_API_KEY # ""
          /\ step' = [step EXCEPT ![t] = "post"]
          /\ model' = [model EXCEPT ![t] = 1]
       \/ /\ OPENROUTER_API_KEY = ""
          /\ step' = [step EXCEPT ![t] = "finish"]
          /\ UNCHANGED model
    /\ UNCHANGED <<shared, config, requests, pc, locals, outcome, hist, resp,
                   response_text, result, posts>>

\* `if response_text is None and OPENROUTER_API_KEY:` and, when it holds, the
\* call of _call_openrouter_fallback up to the head of its loop
FallbackCheck(t) ==
    /\ step[t] = "fallback"
    /\ \/ /\ response_text[t] = None
          /\ OPENROUTER_API_KEY # ""
          /\ step' = [step EXCEPT ![t] = "post"]
          /\ model' = [model EXCEPT ![t] = 1]
       \/ /\ ~(response_text[t] = None /\ OPENROUTER_API_KEY # "")
          /\ step' = [step EXCEPT ![t] = "finish"]
          /\ UNCHANGED model
    /\ UNCHANGED <<shared, config, requests, pc, locals, outcome, hist, resp,
                   response_text, result, posts>>

\* ---------------------------------------------------------------- _call_openrouter_fallback
\* `for model in OPENROUTER_FREE_MODELS:` has a next model; requests.post(...)
PostSend(t) ==
    /\ step[t] = "post"
    /\ model[t] <= Len(OPENROUTER_FREE_MODELS)
    /\ \E a \in PostAnswers : resp' = [resp EXCEPT ![t] = a]
    /\ posts' = [posts EXCEPT ![t] = Append(@, model[t])]
    /\ step' = [step EXCEPT ![t] = "posted"]
    /\ UNCHANGED <<shared, config, requests, pc, locals, outcome, hist, model,
                   response_text, result>>

\* a variant that takes any status for success
PostHandle_anystatus(t) ==
    /\ step[t] = "posted"
    /\ \/ /\ ~resp[t].raised
          /\ resp[t].content # "missing"
          /\ response_text' = [response_text EXCEPT ![t] =
                IF resp[t].content = "null" THEN None ELSE <<"OpenRouter", model[t]>>]
          /\ step' = [step EXCEPT ![t] = "finish"]
          /\ UNCHANGED model
       \/ /\ resp[t].raised \/ resp[t].content = "missing"
          /\ model' = [model EXCEPT ![t] = @ + 1]
          /\ step' = [step EXCEPT ![t] = "post"]
          /\ UNCHANGED response_text
    /\ UNCHANGED <<shared, config, requests, pc, locals, outcome, hist, resp,
                   result, posts>>

\* the answer is handled: status 200 with a content returns it; any other
\* status, and any exception in the try block, goes on to the next model
PostHandle(t) ==
    /\ step[t] = "posted"
    /\ \/ /\ ~resp[t].raised
          /\ resp[t].status_code = HTTP_OK
          /\ resp[t].content # "missing"
          /\ response_text' = [response_text EXCEPT ![t] =
                IF resp[t].content = "null" THEN None ELSE <<"OpenRouter", model[t]>>]
          /\ step' = [step EXCEPT ![t] = "finish"]
          /\ UNCHANGED model
       \/ /\ resp[t].raised \/ resp[t].status_code # HTTP_OK \/ resp[t].content = "missing"
          /\ model' = [model EXCEPT ![t] = @ + 1]
          /\ step' = [step EXCEPT ![t] = "post"]
          /\ UNCHANGED response_text
    /\ UNCHANGED <<shared, config, requests, pc, locals, outcome, hist, resp,
                   result, posts>>

\* the list is exhausted: the last error is raised, and caught by the caller
FallbackFails(t) ==
    /\ step[t] = "post"
    /\ model[t] > Len(OPENROUTER_FREE_MODELS)
    /\ step' = [step EXCEPT ![t] = "finish"]
    /\ UNCHANGED <<shared, config, requests, pc, locals, outcome, hist, model, resp,
                   response_text, result, posts>>

\* `if response_text is None: raise Exception(...)`, else the text is used
Finish(t) ==
    /\ step[t] = "finish"
    /\ result' = [result EXCEPT ![t] = IF response_text[t] = None THEN "Exception" ELSE "text"]
    /\ step' = [step EXCEPT ![t] = "over"]
    /\ UNCHANGED <<shared, config, requests, pc, locals, outcome, hist, model, resp,
                   response_text, posts>>

\* the request is over; the thread is free to serve its next request
AnalyzeReturn(t) ==
    /\ step[t] = "over"
    /\ step' = [step EXCEPT ![t] = "wait"]
    /\ model' = [model EXCEPT ![t] = 1]
    /\ resp' = [resp EXCEPT ![t] = NoResp]
    /\ response_text' = [response_text EXCEPT ![t] = None]
    /\ result' = [result EXCEPT ![t] = "none"]
    /\ posts' = [posts EXCEPT ![t] = << >>]
    /\ round_num' = [round_num EXCEPT ![t] = 0]
    /\ attempt' = [attempt EXCEPT ![t] = 0]
    /\ keys_tried' = [keys_tried EXCEPT ![t] = 0]
    /\ keys_in_cooldown' = [keys_in_cooldown EXCEPT ![t] = 0]
    /\ key_index' = [key_index EXCEPT ![t] = 0]
    /\ wake' = [wake EXCEPT ![t] = Now]
    /\ response' = [response EXCEPT ![t] = 0]
    /\ outcome' = [outcome EXCEPT ![t] = "none"]
    /\ hist' = [hist EXCEPT ![t] = NoHist]
    /\ UNCHANGED <<shared, config, requests, pc>>

\* ---------------------------------------------------------------- the specifications
Next ==
    \/ Tick
    \/ \E t \in callers :
        \/ Enter(t) /\ UNCHANGED coordinator
        \/ RoundStart(t)
        \/ BackoffWake(t)
        \/ NextKey(t)
        \/ ThrottleEnter(t)
        \/ ThrottleWake(t)
        \/ AttemptBegin(t)
        \/ AttemptSuccess(t)
        \/ AttemptRateLimited(t)
        \/ AttemptOtherError(t)
        \/ ActivateGlobalCooldown(t)
        \/ Return(t)

Spec == Init /\ [][Next]_vars

SpecSingle == InitSingle /\ [][Next]_vars

\* the steps of thread t once its call has begun
Running(t) ==
    \/ RoundStart(t)
    \/ BackoffWake(t)
    \/ NextKey(t)
    \/ ThrottleEnter(t)
    \/ ThrottleWake(t)
    \/ AttemptBegin(t)
    \/ AttemptSuccess(t)
    \/ AttemptRateLimited(t)
    \/ AttemptOtherError(t)
    \/ ActivateGlobalCooldown(t)
    \/ Return(t)

InitFair ==
    /\ InitWith(1..NumCallers, MaxKeys, MaxCallsFair)
    /\ OPENROUTER_API_KEY = ""
    /\ InitCoordinator(1..NumCallers, "direct")

\* Scheduling: time passes, and a thread whose call has begun is not starved
\* of the processor: it takes its next step when it stays able to (a sleep
\* that is over returns, a provider call in progress returns or raises, a
\* free lock is taken).  Nothing forces a request to arrive.
SpecFair ==
    /\ InitFair
    /\ [][Next]_vars
    /\ WF_vars(Tick)
    /\ \A t \in 1..NumCallers : WF_vars(Running(t))

NextAnalysis ==
    \/ Tick
    \/ \E t \in callers :
        \/ AnalyzeStart(t)
        \/ RoundStart(t)
        \/ BackoffWake(t)
        \/ NextKey(t)
        \/ ThrottleEnter(t)
        \/ ThrottleWake(t)
        \/ AttemptBegin(t)
        \/ AttemptSuccess(t)
        \/ AttemptRateLimited(t)
        \/ AttemptOtherError(t)
        \/ ActivateGlobalCooldown(t)
        \/ PrimaryEnds(t)
        \/ FallbackCheck(t)
        \/ PostSend(t)
        \/ PostHandle(t)
        \/ FallbackFails(t)
        \/ Finish(t)
        \/ AnalyzeReturn(t)

SpecAnalysis == InitAnalysis /\ [][NextAnalysis]_vars

\* ================================================================ properties

\* the shared dispatcher state a call may touch
DispatcherState == <<_current_key_index, _key_cooldown, _global_cooldown_until,
                     _last_request_time>>

\* a call that is over does nothing more: it attempts no further credential
\* and starts no further round before the thread takes its next request
OverIsOver(t) ==
    pc[t] = "done" =>
        \/ pc'[t] = "done" /\ hist'[t].begun = hist[t].begun
                            /\ round_num'[t] = round_num[t] /\ attempt'[t] = attempt[t]
        \/ pc'[t] = "idle"

\* C1: a dispatch entered with a non-empty pool while the global cooldown is
\* active raises QuotaExhaustedError in that very step, with no provider
\* attempt and no pass through the throttle gate, and leaves the cursor, every
\* per-key cooldown entry, the global cooldown and the last-call time as they were.
C1_GlobalCooldownRejects ==
    [][\A t \in callers :
        (pc[t] = "idle" /\ pc'[t] # "idle" /\ Len(GEMINI_API_KEYS) > 0
            /\ Now < _global_cooldown_until)
        => /\ pc'[t] = "done"
           /\ outcome'[t] = "QuotaExhaustedError"
           /\ response'[t] = 0
           /\ hist'[t].begun = 0
           /\ hist'[t].throttled = 0
           /\ UNCHANGED DispatcherState
           /\ UNCHANGED _rate_lock]_vars

C1_Witness ==
    \E t \in callers :
        /\ pc[t] = "done"
        /\ outcome[t] = "QuotaExhaustedError"
        /\ ~hist[t].gated
        /\ Now < _global_cooldown_until
        /\ \E k \in 0..(Len(GEMINI_API_KEYS) - 1) : ~(Now < CooldownGet(k))

\* C2: a single caller's dispatch that made provider attempts, every one of
\* them answered by a rate-limit error, has ended with QuotaExhaustedError, and
\* as it ends the global cooldown has GLOBAL_COOLDOWN seconds left.
C2_ExhaustionSetsGlobalCooldown ==
    \A t \in callers :
        (pc[t] = "done" /\ hist[t].begun >= 1 /\ hist[t].limited = hist[t].begun)
        => /\ outcome[t] = "QuotaExhaustedError"
           /\ response[t] = 0
           /\ _global_cooldown_until - Now = GLOBAL_COOLDOWN

C2_Witness ==
    \E t \in callers :
        /\ pc[t] = "done"
        /\ outcome[t] = "QuotaExhaustedError"
        /\ hist[t].begun > Len(GEMINI_API_KEYS)
        /\ hist[t].limited = hist[t].begun
        /\ round_num[t] = max_rounds

\* C3: the step in which an attempt with key index i succeeds sets the cursor
\* to (i + 1) mod N, removes i's cooldown entry, and ends the dispatch with
\* that attempt's response; the dispatch then attempts nothing more.
C3_SuccessAdvancesAndClears ==
    [][\A t \in callers :
        /\ (pc[t] = "calling" /\ outcome'[t] = "ok")
           => /\ _current_key_index' = (key_index[t] + 1) % Len(GEMINI_API_KEYS)
              /\ _current_key_index' \in 0..(Len(GEMINI_API_KEYS) - 1)
              /\ key_index[t] \notin DOMAIN _key_cooldown'
              /\ pc'[t] = "done"
              /\ response'[t] = GEMINI_API_KEYS[key_index[t] + 1]
              /\ hist'[t].begun = hist[t].begun
        /\ OverIsOver(t)]_vars

C3_Witness ==
    \E t \in callers :
        /\ pc[t] = "done"
        /\ outcome[t] = "ok"
        /\ hist[t].had_entry
        /\ key_index[t] = Len(GEMINI_API_KEYS) - 1
        /\ _current_key_index = 0
        /\ Len(GEMINI_API_KEYS) >= 2

\* C4: the step in which an attempt fails with an error that is not a rate
\* limit ends the dispatch with that error and changes neither the failing
\* key's cooldown entry, nor the cursor, nor the global cooldown; no further
\* credential is attempted and no further round is run.
C4_OtherErrorPropagates ==
    [][\A t \in callers :
        /\ (pc[t] = "calling" /\ outcome'[t] = "ProviderError")
           => /\ pc'[t] = "done"
              /\ response'[t] = 0
              /\ hist'[t].begun = hist[t].begun
              /\ UNCHANGED <<_key_cooldown, _current_key_index, _global_cooldown_until>>
        /\ OverIsOver(t)]_vars

C4_Witness ==
    \E t \in callers :
        /\ pc[t] = "done"
        /\ outcome[t] = "ProviderError"
        /\ round_num[t] = 0
        /\ attempt[t] = 0
        /\ Len(GEMINI_API_KEYS) >= 2
        /\ key_index[t] \notin DOMAIN _key_cooldown
        /\ ~(Now < _global_cooldown_until)

\* a call that is in its first round, or ended in it
InFirstRound(t) == pc[t] \notin {"idle", "round", "backoff"} /\ hist[t].gated /\ round_num[t] = 0

\* the first round is over
FirstRoundOver(t) ==
    /\ InFirstRound(t)
    /\ pc[t] \in {"done", "exhausted"} \/ (pc[t] = "key" /\ attempt[t] >= Len(GEMINI_API_KEYS))

\* C5 as stated: when exactly one credential i has no active cooldown as a
\* single caller's dispatch starts, i is the only credential attempted in the
\* first round.
C5_OnlyAvailableIsAttempted ==
    \A t \in callers :
        (InFirstRound(t) /\ Cardinality(hist[t].avail0) = 1)
        => \A n \in 1..Len(hist[t].tried) : hist[t].tried[n] \in hist[t].avail0

\* C5, amended: when exactly one credential i has no active cooldown as a
\* single caller's dispatch starts, the first round attempts i, and attempts it
\* first: every credential visited before i is skipped; a credential visited
\* after i is attempted only when i's attempt was answered by a rate-limit
\* error (its own cooldown having run out in the meantime).
C5_AvailableIsAttemptedFirst ==
    \A t \in callers :
        (InFirstRound(t) /\ Cardinality(hist[t].avail0) = 1)
        => /\ Len(hist[t].tried) >= 1 => hist[t].tried[1] \in hist[t].avail0
           /\ Len(hist[t].tried) >= 2 =>
                /\ hist[t].tried[1] \in DOMAIN hist[t].rl_at
                /\ hist[t].limited >= 1
           /\ FirstRoundOver(t) => Len(hist[t].tried) >= 1

C5_Witness ==
    \E t \in callers :
        /\ FirstRoundOver(t)
        /\ Cardinality(hist[t].avail0) = 1
        /\ Len(GEMINI_API_KEYS) = 3
        /\ Len(hist[t].tried) = 1
        /\ Len(hist[t].visited) = 3
        /\ hist[t].visited[3] = hist[t].tried[1]

\* the keys rate-limited in the round in which a later key answered
LimitedBeforeSuccess(t) ==
    {hist[t].tried[n] : n \in 1..(Len(hist[t].tried) - 1)}

\* C6 as stated: when a single caller's dispatch returns key j's response after
\* other keys were rate-limited in the same round, each of those keys has the
\* cooldown entry (time of its failure + PER_KEY_COOLDOWN) and is still in
\* cooldown, the cursor is (j + 1) mod N and the global cooldown is unchanged.
C6_LimitedKeysStillCooling ==
    \A t \in callers :
        (pc[t] = "done" /\ outcome[t] = "ok" /\ Len(hist[t].tried) >= 2)
        => /\ \A k \in LimitedBeforeSuccess(t) :
                /\ k \in DOMAIN _key_cooldown
                /\ _key_cooldown[k] = hist[t].rl_at[k] + PER_KEY_COOLDOWN
                /\ Now < _key_cooldown[k]
           /\ response[t] = GEMINI_API_KEYS[key_index[t] + 1]
           /\ _current_key_index = (key_index[t] + 1) % Len(GEMINI_API_KEYS)
           /\ ~(Now < _global_cooldown_until)

\* C6, amended: when a single caller's dispatch returns key j's response after
\* other keys were rate-limited in the same round, each of those keys has the
\* cooldown entry (time of its failure + PER_KEY_COOLDOWN), and is still in
\* cooldown if less than PER_KEY_COOLDOWN seconds have passed since its
\* failure; the cursor is (j + 1) mod N and the global cooldown is unchanged.
C6_LimitedKeysKeepEntry ==
    \A t \in callers :
        (pc[t] = "done" /\ outcome[t] = "ok" /\ Len(hist[t].tried) >= 2)
        => /\ \A k \in LimitedBeforeSuccess(t) :
                /\ k \in DOMAIN _key_cooldown
                /\ _key_cooldown[k] = hist[t].rl_at[k] + PER_KEY_COOLDOWN
                /\ (Now - hist[t].rl_at[k] < PER_KEY_COOLDOWN) <=> (Now < _key_cooldown[k])
           /\ response[t] = GEMINI_API_KEYS[key_index[t] + 1]
           /\ _current_key_index = (key_index[t] + 1) % Len(GEMINI_API_KEYS)
           /\ ~(Now < _global_cooldown_until)

C6_Witness ==
    \E t \in callers :
        /\ pc[t] = "done"
        /\ outcome[t] = "ok"
        /\ Len(GEMINI_API_KEYS) = 3
        /\ Len(hist[t].tried) = 3
        /\ \A k \in LimitedBeforeSuccess(t) : Now < _key_cooldown[k]

\* C7: the threads pass the throttle gate one at a time, and whenever a thread
\* leaves the gate it writes the present time to the last-call timestamp, the
\* value it replaces being at least MIN_REQUEST_INTERVAL seconds old.
C7_ThrottleSpacing ==
    [][/\ \A t, u \in callers :
            (pc[t] = "throttle_sleep" /\ pc[u] = "throttle_sleep") => t = u
       /\ \A t \in callers :
            /\ pc[t] = "throttle_sleep" => _rate_lock = t
            /\ (pc[t] \in {"throttle", "throttle_sleep"} /\ pc'[t] = "attempt")
               => /\ _last_request_time' = Now
                  /\ Now - _last_request_time >= MIN_REQUEST_INTERVAL]_vars

C7_Witness ==
    \E t, u \in callers :
        /\ t # u
        /\ pc[t] = "attempt"
        /\ hist[t].slept
        /\ _last_request_time = Now
        /\ pc[u] = "throttle"
        /\ _rate_lock = 0

\* C8: no provider attempt is begun with a key whose cooldown is active at
\* the moment the attempt begins.
C8_NoAttemptOnCoolingKey ==
    \A t \in callers : pc[t] = "calling" => ~hist[t].hot

\* C9: no provider attempt is begun while the global cooldown is active.
C9_NoAttemptUnderGlobalCooldown ==
    \A t \in callers : pc[t] = "calling" => ~hist[t].blocked

\* C10: within one round of one dispatch the key indices visited start at the
\* cursor and go round the pool once: the n-th visited is n - 1 places after
\* the first, so no key is visited twice and, at the end of the round, none
\* is left out.
C10_RoundVisitsEachKeyOnce ==
    \A t \in callers :
        /\ \A n \in 1..Len(hist[t].visited) :
                hist[t].visited[n] = (hist[t].visited[1] + n - 1) % Len(GEMINI_API_KEYS)
        /\ (pc[t] = "key" /\ attempt[t] >= Len(GEMINI_API_KEYS))
           => {hist[t].visited[n] : n \in 1..Len(hist[t].visited)}
                = 0..(Len(GEMINI_API_KEYS) - 1)

\* C11: a thread that sleeps, in the throttle gate or between two rounds,
\* does not hold the lock, so that a thread waiting at the gate can enter it.
C11_NoLockWhileSleeping ==
    \A t \in callers :
        pc[t] \in {"throttle_sleep", "backoff"} /\ Now < wake[t] => _rate_lock # t

\* the analysis step is past its call of the dispatcher
PrimaryOver(t) == step[t] \in {"fallback", "post", "posted", "finish", "over"}

FallbackOrder(t) ==
    /\ \A n \in 1..Len(posts'[t]) : posts'[t][n] = n
    /\ Len(posts'[t]) <= Len(OPENROUTER_FREE_MODELS)
    /\ step[t] \in {"post", "posted"} => pc'[t] = "idle" /\ wake'[t] = wake[t]
    /\ (step[t] \in {"finish", "over"} /\ step'[t] # "wait") => posts'[t] = posts[t]
    /\ (step[t] = "post" /\ step'[t] = "finish") =>
            /\ Len(posts[t]) = Len(OPENROUTER_FREE_MODELS)
            /\ response_text'[t] = None

\* C13 as stated: the fallback posts to the models in list order, each at
\* most once and without sleeping; an answer with status 200 ends it with that
\* model's text, and no model is posted to afterwards; an answer with another
\* status, or a raised error, makes it go on with the next model; when every
\* model has failed it raises.
C13_FirstOkStatusReturns ==
    [][\A t \in callers :
        /\ FallbackOrder(t)
        /\ (step[t] = "posted" /\ step'[t] # "posted") =>
            IF ~resp[t].raised /\ resp[t].status_code = HTTP_OK
            THEN /\ step'[t] = "finish"
                 /\ response_text'[t] = <<"OpenRouter", model[t]>>
            ELSE /\ step'[t] = "post"
                 /\ model'[t] = model[t] + 1]_vars

\* C13, amended: as above, but the answer that ends the fallback is the first
\* with status 200 and a body that holds a content, and what is returned is
\* that content (nothing, when it is null); a 200 answer whose body cannot be
\* read makes the fallback go on with the next model like any other failure.
C13_FirstReadableOkReturns ==
    [][\A t \in callers :
        /\ FallbackOrder(t)
        /\ (step[t] = "posted" /\ step'[t] # "posted") =>
            IF ~resp[t].raised /\ resp[t].status_code = HTTP_OK /\ resp[t].content # "missing"
            THEN /\ step'[t] = "finish"
                 /\ resp[t].content = "text" => response_text'[t] = <<"OpenRouter", model[t]>>
                 /\ resp[t].content = "null" => response_text'[t] = None
                 /\ model'[t] = model[t]
            ELSE /\ step'[t] = "post"
                 /\ model'[t] = model[t] + 1
                 /\ response_text'[t] = None]_vars

C13_Witness ==
    \E t \in callers :
        /\ step[t] = "finish"
        /\ posts[t] = <<1, 2, 3>>
        /\ resp[t].status_code = HTTP_OK
        /\ response_text[t] = <<"OpenRouter", 3>>

\* C14: with an empty pool and no fallback credential the analysis step goes
\* straight to its terminal error: the dispatcher is not entered, no provider
\* attempt is made, no fallback model is posted to, and the cursor, the
\* cooldowns, the last-call time and the lock stay as they are.
C14_NothingConfiguredFails ==
    [][(NKeys = 0 /\ OPENROUTER_API_KEY = "") =>
        /\ UNCHANGED <<DispatcherState, _rate_lock>>
        /\ \A t \in callers :
            /\ pc'[t] = "idle"
            /\ outcome'[t] = "none"
            /\ hist'[t].begun = 0
            /\ posts'[t] = << >>
            /\ step'[t] \in {"wait", "fallback", "finish", "over"}
            /\ step'[t] = "over" => result'[t] = "Exception"]_vars

C14_Witness ==
    \E t \in callers :
        /\ NKeys = 0
        /\ OPENROUTER_API_KEY = ""
        /\ step[t] = "over"
        /\ result[t] = "Exception"

\* the dispatcher was called for this request and returned a response
PrimarySucceeded(t) == NKeys > 0 /\ outcome[t] = "ok"

\* the dispatcher was not called (empty pool), or its call ended in an error
PrimaryFailedOrDisabled(t) ==
    \/ NKeys = 0
    \/ outcome[t] \in {"QuotaExhaustedError", "ProviderError", "ValueError"}

\* a fallback model succeeded: the last answer had status 200 and a text
SecondarySucceeded(t) ==
    /\ posts[t] # << >>
    /\ ~resp[t].raised
    /\ resp[t].status_code = HTTP_OK
    /\ resp[t].content = "text"

\* the fallback was not called (no credential, or not needed), or no model
\* gave a text
SecondaryFailedOrDisabled(t) ==
    \/ OPENROUTER_API_KEY = ""
    \/ posts[t] = << >>
    \/ ~SecondarySucceeded(t)

C16_EmptyPoolIsConfigurationError ==
    [][\A t \in callers :
        /\ (pc[t] = "idle" /\ pc'[t] # "idle" /\ Len(GEMINI_API_KEYS) = 0)
            => /\ pc'[t] = "done"
               /\ outcome'[t] = "ValueError"
               /\ response'[t] = 0
               /\ hist'[t].begun = 0
               /\ hist'[t].throttled = 0
               /\ ~hist'[t].gated
               /\ UNCHANGED DispatcherState
               /\ UNCHANGED _rate_lock
        /\ Len(GEMINI_API_KEYS) = 0 => OverIsOver(t)]_vars

C16_Witness ==
    \E t \in callers :
        /\ Len(GEMINI_API_KEYS) = 0
        /\ pc[t] = "done"
        /\ outcome[t] = "ValueError"
        /\ requests < MaxCallsSingle - 1

\* C17: with a non-empty pool of N keys the cursor is in 0..N-1, and so is
\* every key index a call holds, has visited (attempted or skipped) or has
\* attempted, and every key index with a cooldown entry.
C17_IndicesInRange ==
    Len(GEMINI_API_KEYS) > 0 =>
        /\ _current_key_index \in 0..(Len(GEMINI_API_KEYS) - 1)
        /\ DOMAIN _key_cooldown \subseteq 0..(Len(GEMINI_API_KEYS) - 1)
        /\ \A t \in callers :
            /\ key_index[t] \in 0..(Len(GEMINI_API_KEYS) - 1)
            /\ \A n \in 1..Len(hist[t].visited) :
                    hist[t].visited[n] \in 0..(Len(GEMINI_API_KEYS) - 1)
            /\ \A n \in 1..Len(hist[t].tried) :
                    hist[t].tried[n] \in 0..(Len(GEMINI_API_KEYS) - 1)

C17_Witness ==
    \E t, u \in callers :
        /\ t # u
        /\ Len(GEMINI_API_KEYS) >= 2
        /\ _current_key_index = Len(GEMINI_API_KEYS) - 1
        /\ pc[t] = "calling"
        /\ attempt[t] = 1
        /\ key_index[t] = 0
        /\ pc[u] = "calling"

\* the round of call t is over: every key of the pool has been visited
RoundOver(t) == pc[t] = "key" /\ attempt[t] >= Len(GEMINI_API_KEYS)

\* C18: a round in which every key was skipped (no attempt) ends the rotation:
\* the call runs no further round and sleeps no further backoff before it
\* ends; a round with at least one attempt, all rate-limited, is followed by
\* the next round (after its backoff) while fewer than max_rounds rounds have
\* been run.
C18_EarlyStopOnAllSkipped ==
    [][\A t \in callers :
        /\ (RoundOver(t) /\ pc'[t] # "key") =>
            IF hist[t].tried = << >>
            THEN /\ pc'[t] = "exhausted"
                 /\ round_num'[t] = round_num[t]
            ELSE /\ pc'[t] = "round"
                 /\ round_num'[t] = round_num[t] + 1
        /\ (pc[t] = "round" /\ pc'[t] # "round") =>
            IF round_num[t] < max_rounds
            THEN pc'[t] = (IF round_num[t] = 0 THEN "key" ELSE "backoff")
            ELSE pc'[t] = "exhausted"
        /\ (pc[t] = "backoff" /\ pc'[t] # "backoff") =>
            /\ pc'[t] = "key"
            /\ attempt'[t] = 0
            /\ hist'[t].tried = << >>
        /\ (pc[t] = "exhausted" /\ pc'[t] # "exhausted") =>
            /\ pc'[t] = "done"
            /\ round_num'[t] = round_num[t]]_vars

C18_Witness ==
    \E t \in callers :
        /\ pc[t] = "exhausted"
        /\ round_num[t] = 1
        /\ hist[t].tried = << >>
        /\ Len(hist[t].visited) = Len(GEMINI_API_KEYS)
        /\ hist[t].limited = Len(GEMINI_API_KEYS)
        /\ Len(GEMINI_API_KEYS) >= 2

\* C19: round 0 starts without a sleep; round r > 0 starts after one sleep of
\* min(BackoffBase * 2^(r-1), BackoffCap) seconds (15 before round 1, 30
\* before round 2), begun at the head of the round and followed by the
\* round's first key; inside a round the call never starts a backoff sleep.
C19_BackoffBeforeLaterRounds ==
    [][\A t \in callers :
        /\ (pc[t] = "round" /\ pc'[t] # "round" /\ round_num[t] < max_rounds) =>
            IF round_num[t] = 0
            THEN pc'[t] = "key" /\ attempt'[t] = 0
            ELSE /\ pc'[t] = "backoff"
                 /\ wake'[t] - Now = Min(BackoffBase * Pow2(round_num[t] - 1), BackoffCap)
                 /\ round_num[t] = 1 => wake'[t] - Now = BackoffBase
                 /\ round_num[t] = 2 => wake'[t] - Now = 2 * BackoffBase
        /\ pc'[t] = "backoff" => pc[t] \in {"round", "backoff"}
        /\ (pc[t] = "backoff" /\ pc'[t] # "backoff") =>
            /\ Now >= wake[t]
            /\ pc'[t] = "key"
            /\ attempt'[t] = 0
            /\ round_num'[t] = round_num[t]
        /\ (pc[t] = "backoff" /\ pc'[t] = "backoff") => wake'[t] <= wake[t]]_vars

C19_Witness ==
    \E t \in callers :
        /\ pc[t] = "backoff"
        /\ round_num[t] = 2
        /\ wake[t] - Now = 2 * BackoffBase

\* C20: under fair scheduling every call that has begun ends, in a response,
\* a re-raised provider error, ValueError or QuotaExhaustedError; it runs at
\* most max_rounds rounds and makes at most N attempts in a round.
C20_DispatchTerminates ==
    /\ \A t \in 1..NumCallers :
        (pc[t] # "idle") ~>
            (pc[t] = "done"
                /\ outcome[t] \in {"ok", "ProviderError", "ValueError", "QuotaExhaustedError"})
    /\ [](\A t \in 1..NumCallers :
            /\ round_num[t] <= max_rounds
            /\ pc[t] \notin {"idle", "round", "exhausted", "done"} => round_num[t] < max_rounds
            /\ attempt[t] <= Len(GEMINI_API_KEYS)
            /\ Len(hist[t].tried) <= Len(GEMINI_API_KEYS))

C20_Witness ==
    \E t, u \in callers :
        /\ t # u
        /\ pc[t] = "done"
        /\ outcome[t] = "QuotaExhaustedError"
        /\ hist[t].slept
        /\ pc[u] = "throttle_sleep"
        /\ _rate_lock = u

\* C21: a call that got past the entry checks and found every key in cooldown
\* in its first round makes no attempt, yet leaves the round loop to set the
\* global cooldown GLOBAL_COOLDOWN seconds ahead and raise
\* QuotaExhaustedError; the global cooldown then outlasts every per-key
\* cooldown.
C21_ZeroAttemptCallSetsGlobalCooldown ==
    [][\A t \in callers :
        /\ (RoundOver(t) /\ round_num[t] = 0 /\ hist[t].begun = 0 /\ pc'[t] # "key")
            => pc'[t] = "exhausted"
        /\ (pc[t] = "exhausted" /\ pc'[t] # "exhausted" /\ hist[t].begun = 0)
            => /\ pc'[t] = "done"
               /\ outcome'[t] = "QuotaExhaustedError"
               /\ hist'[t].begun = 0
               /\ round_num[t] = 0
               /\ _global_cooldown_until' - Now = GLOBAL_COOLDOWN
               /\ \A k \in DOMAIN _key_cooldown' :
                    _key_cooldown'[k] < _global_cooldown_until']_vars

C21_Witness ==
    \E t \in callers :
        /\ pc[t] = "done"
        /\ outcome[t] = "QuotaExhaustedError"
        /\ hist[t].gated
        /\ hist[t].begun = 0
        /\ hist[t].avail0 = {}
        /\ Len(GEMINI_API_KEYS) >= 2
        /\ Len(hist[t].visited) = Len(GEMINI_API_KEYS)
        /\ _global_cooldown_until - Now = GLOBAL_COOLDOWN
        /\ \A k \in 0..(Len(GEMINI_API_KEYS) - 1) : Now < CooldownGet(k)

\* C22: a call sets the global cooldown only when, in the last round it ran,
\* it visited every key of the pool, each either attempted and rate-limited
\* or skipped because its cooldown was active.
C22_GlobalCooldownOnlyAfterFullRound ==
    \A t \in callers :
        (pc[t] = "done" /\ outcome[t] = "QuotaExhaustedError" /\ hist[t].gated)
        => {hist[t].visited[n] : n \in 1..Len(hist[t].visited)}
                = 0..(Len(GEMINI_API_KEYS) - 1)

\* the call is in its second round and has made no attempt in it; every
\* attempt of the first round was answered by a rate-limit error, and the
\* first round (the time since the call began, less the backoff sleep that
\* has just ended) took less than PER_KEY_COOLDOWN - BackoffBase = 45 seconds
SecondRoundHead(t) ==
    /\ pc[t] \in {"key", "exhausted"}
    /\ round_num[t] = 1
    /\ hist[t].tried = << >>
    /\ hist[t].limited = hist[t].begun
    /\ (Now - hist[t].since) - BackoffBase < PER_KEY_COOLDOWN - BackoffBase

\* what the second round does when every key is still cooling: it skips each
\* key, stops the rotation, and the call sets the global cooldown and raises
\* QuotaExhaustedError, having called the provider once per key
SecondRoundIdle(t) ==
    /\ \A k \in 0..(Len(GEMINI_API_KEYS) - 1) : Now < CooldownGet(k)
    /\ hist[t].begun = Len(GEMINI_API_KEYS)
    /\ pc'[t] \in {"key", "exhausted", "done"}
    /\ hist'[t].begun = Len(GEMINI_API_KEYS)
    /\ round_num'[t] = 1
    /\ pc'[t] = "done" =>
        /\ outcome'[t] = "QuotaExhaustedError"
        /\ _global_cooldown_until' - Now = GLOBAL_COOLDOWN

\* C23: for a single caller whose call begins with no key in cooldown, when
\* the first round takes less than 45 s and every attempt is rate-limited,
\* the second round (15 s later) finds every key still in cooldown and makes
\* no attempt: the call ends with the global cooldown set after exactly N
\* provider calls, one per key, and not N * max_rounds.
C23_SecondRoundMakesNoAttempt ==
    [][\A t \in callers :
        (SecondRoundHead(t) /\ hist[t].avail0 = 0..(Len(GEMINI_API_KEYS) - 1))
            => SecondRoundIdle(t)]_vars

C23_Witness ==
    \E t \in callers :
        /\ pc[t] = "done"
        /\ outcome[t] = "QuotaExhaustedError"
        /\ round_num[t] = 1
        /\ Len(GEMINI_API_KEYS) = 3
        /\ hist[t].avail0 = 0..2
        /\ hist[t].begun = 3
        /\ hist[t].limited = 3
        /\ hist[t].tried = << >>
        /\ Len(hist[t].visited) = 3
        /\ (Now - hist[t].since) - BackoffBase < PER_KEY_COOLDOWN - BackoffBase
        /\ hist[t].begun < 3 * max_rounds
        /\ _global_cooldown_until - Now = GLOBAL_COOLDOWN

\* C23 as stated, whatever the cooldowns were when the call began: the
\* second round after a first round shorter than 45 s makes no attempt.
C23_ShortFirstRoundMeansNAttempts ==
    [][\A t \in callers : SecondRoundHead(t) => SecondRoundIdle(t)]_vars

====
